---- MODULE Spec2Model ----
(***************************************************************************)
(* Model of the method-metadata cache (src/agent/method_locals.cc) and of  *)
(* the event routing and teardown of the debugger (src/agent/debugger.cc). *)
(*                                                                         *)
(* Threads of the application call Debugger's JVMTI event handlers and     *)
(* MethodLocals::GetLocalVariables concurrently.  Every blocking point     *)
(* (taking mu_) and every access to method_vars_ is a step of its own, so  *)
(* that overlapping accesses to the map are visible as states.             *)
(***************************************************************************)
EXTENDS Integers, Sequences, FiniteSets, TLC

\* ---------------------------------------------------------------- bounds
NumThreads == 2
\* Entries allocated in a concurrent scenario, and in a sequential one.
MaxEntries == 2
MaxLoads == 3
MaxUnloads == 2
MaxTableLen == 2
MaxSlot == 2

Threads == 1..NumThreads
Methods == {"m1", "m2"}

\* ------------------------------------------------------------- constants
\* Null pointers and the map's end() are records, as entries and readers are.
NULL == [null |-> TRUE]
NoEntry == [end |-> TRUE]
NoMethod == "none"
\* A configured LocalVariablesVisibilityPolicy.
Policy == [policy |-> TRUE]
NoThread == 0
NOT_CALLED == "NOT_CALLED"
JVMTI_ERROR_NONE == "JVMTI_ERROR_NONE"
JVMTI_ERROR_ABSENT_INFORMATION == "JVMTI_ERROR_ABSENT_INFORMATION"
JVMTI_ERROR_NATIVE_METHOD == "JVMTI_ERROR_NATIVE_METHOD"
JVMTI_ERROR_INTERNAL == "JVMTI_ERROR_INTERNAL"
JVM_ACC_STATIC == "JVM_ACC_STATIC"
JVM_ACC_PUBLIC == "JVM_ACC_PUBLIC"

\* What a JVMTI call can answer: success or an error.
JvmtiErrors == {JVMTI_ERROR_NONE, JVMTI_ERROR_INTERNAL}
\* GetLocalVariableTable has two errors the code tells apart from the rest.
TableErrors ==
  {JVMTI_ERROR_NONE, JVMTI_ERROR_ABSENT_INFORMATION,
   JVMTI_ERROR_NATIVE_METHOD, JVMTI_ERROR_INTERNAL}

\* The answers the runtime gives to the calls of one LoadEntry, were they made.
Answers ==
  [declaring : JvmtiErrors, modifiers : JvmtiErrors, signature : JvmtiErrors,
   visible : BOOLEAN, table : TableErrors, args : JvmtiErrors]

\* The answers drawn in the concurrent scenarios: every call succeeds, or the
\* declaring-class lookup fails, or the table lookup reports no debug
\* information, or the table lookup fails with another error.
SomeAnswers ==
  {a \in Answers :
     /\ a.modifiers = JVMTI_ERROR_NONE /\ a.signature = JVMTI_ERROR_NONE
     /\ a.visible /\ a.args = JVMTI_ERROR_NONE
     /\ a.table # JVMTI_ERROR_NATIVE_METHOD
     /\ (a.declaring = JVMTI_ERROR_NONE \/ a.table = JVMTI_ERROR_NONE)}

\* The answers drawn under fair scheduling: every call succeeds, or the table
\* lookup fails with an error that fails the load.
FairAnswers ==
  {a \in SomeAnswers :
     /\ a.declaring = JVMTI_ERROR_NONE
     /\ a.table \in {JVMTI_ERROR_NONE, JVMTI_ERROR_INTERNAL}}

\* ------------------------------------------------- what the runtime knows
\* jvmtiLocalVariableEntry, as GetLocalVariableTable returns it.
TableEntry(name, slot) ==
  [start_location |-> 0, length |-> 1, name |-> name,
   signature |-> "I", slot |-> slot]

\* The variable the runtime describes in each slot.
VarName(slot) == IF slot = 0 THEN "a" ELSE IF slot = 1 THEN "x" ELSE IF slot = 2 THEN "y" ELSE "z"

TableEntries == {TableEntry(VarName(s), s) : s \in 0..MaxSlot}

RECURSIVE SeqsUpTo(_, _)
SeqsUpTo(S, n) ==
  IF n = 0 THEN {<<>>}
  ELSE LET shorter == SeqsUpTo(S, n - 1)
       IN shorter \cup {Append(q, e) : q \in {r \in shorter : Len(r) = n - 1}, e \in S}

\* A method as the runtime describes it.
MethodInfos ==
  [modifiers : {{JVM_ACC_PUBLIC}, {JVM_ACC_PUBLIC, JVM_ACC_STATIC}},
   class_signature : {"LC;"},
   table : SeqsUpTo(TableEntries, MaxTableLen),
   arguments_size : 0..(MaxSlot + 1)]

\* The two methods of the concurrent scenarios: the instance method of the
\* end-to-end example (locals x, y in slots 1, 2; one argument slot, "this")
\* and a static method with slots 0..3 of which the first two are arguments.
DefaultJvm ==
  [m \in Methods |->
     IF m = "m1"
     THEN [modifiers |-> {JVM_ACC_PUBLIC}, class_signature |-> "LC;",
           table |-> <<TableEntry("x", 1), TableEntry("y", 2)>>,
           arguments_size |-> 1]
     ELSE [modifiers |-> {JVM_ACC_PUBLIC, JVM_ACC_STATIC}, class_signature |-> "LC;",
           table |-> <<TableEntry("a", 0), TableEntry("x", 1),
                       TableEntry("y", 2), TableEntry("z", 3)>>,
           arguments_size |-> 2]]

VARIABLES
  jvm,          \* the runtime's description of each method
  local_variables_visibility_policy_,   \* NULL or the configured policy
  method_vars_, \* the cache: method -> entry instance, or NoEntry
  mu_,          \* the thread holding mu_, or NoThread
  pc,           \* where each thread is
  method,       \* the jmethodID argument of each thread's current call
  locals,       \* GetLocalVariables' local "locals": what LoadEntry returned
  ret,          \* what the thread's GetLocalVariables call returns
  jvmti,        \* what the runtime answers to the JVMTI calls of the thread's LoadEntry
  raced,        \* the thread's access to method_vars_ overlapped a conflicting one
  fwd,          \* the collaborator calls made by the thread's current handler
  cleanup,      \* the Cleanup calls ~Debugger has made so far
  born,         \* history: per Entry allocated, its method, kind, unload epoch
                \* and the answer to the table lookup of its load
  unloaded,     \* history: per method, the unload handlers of the cache completed
  started       \* history: unloaded[method] when the thread's GetLocalVariables
                \* call began; the id of the entry mapped to the method (0 if
                \* none) when the thread's erase began

vars ==
  <<jvm, local_variables_visibility_policy_, method_vars_, mu_, pc, method,
    locals, ret, jvmti, raced, fwd, cleanup, born, unloaded, started>>


\* ------------------------------------------------------- the load algorithm
\* new JvmLocalVariableReader(entry, is_argument)
JvmLocalVariableReader(entry, is_argument) ==
  [name |-> entry.name, signature |-> entry.signature, slot |-> entry.slot,
   start_location |-> entry.start_location, length |-> entry.length,
   is_argument |-> is_argument]

\* LoadLocalInstance without the test of JVM_ACC_STATIC.
LoadLocalInstance_IgnoresStatic(info, a) ==
  IF a.modifiers # JVMTI_ERROR_NONE THEN NULL
  ELSE IF a.signature # JVMTI_ERROR_NONE THEN NULL
  ELSE JvmLocalVariableReader(
         [start_location |-> 0, length |-> -1, name |-> "this",
          signature |-> info.class_signature, slot |-> 0],
         TRUE)

\* MethodLocals::LoadLocalInstance: the reader of "this", or NULL.
LoadLocalInstance(info, a) ==
  IF a.modifiers # JVMTI_ERROR_NONE THEN NULL
  ELSE IF JVM_ACC_STATIC \in info.modifiers THEN NULL
  ELSE IF a.signature # JVMTI_ERROR_NONE THEN NULL
  ELSE JvmLocalVariableReader(
         [start_location |-> 0, length |-> -1, name |-> "this",
          signature |-> info.class_signature, slot |-> 0],
         TRUE)

\* arguments_size taken from the runtime even though the lookup failed.
ArgumentsSize_IgnoresError(info, a) ==
  IF Len(info.table) > 0 THEN info.arguments_size ELSE 0

\* The value of arguments_size after lines 116-124.
ArgumentsSize(info, a) ==
  IF Len(info.table) > 0
  THEN IF a.args # JVMTI_ERROR_NONE THEN 0 ELSE info.arguments_size
  ELSE 0

\* The loop with "slot <= arguments_size".
LoadLocals_OffByOne(info, a) ==
  [i \in 1..Len(info.table) |->
     JvmLocalVariableReader(info.table[i],
                            info.table[i].slot <= ArgumentsSize(info, a))]

\* The loop of lines 126-133: one reader per table entry, in table order.
LoadLocals(info, a) ==
  [i \in 1..Len(info.table) |->
     JvmLocalVariableReader(info.table[i],
                            info.table[i].slot < ArgumentsSize(info, a))]

\* A policy that is never asked.
PolicyHides_Never(policy, a) == FALSE

\* Does the visibility policy hide the locals of the method (lines 85-88)?
PolicyHides(policy, a) == policy # NULL /\ ~a.visible

\* LoadEntry returning an entry without locals for every table error.
LoadEntry_TableErrorKept(info, policy, a) ==
  IF a.declaring # JVMTI_ERROR_NONE THEN NULL
  ELSE LET local_instance == LoadLocalInstance(info, a) IN
    IF PolicyHides(policy, a) \/ a.table # JVMTI_ERROR_NONE
    THEN [local_instance |-> local_instance, locals |-> <<>>]
    ELSE [local_instance |-> local_instance, locals |-> LoadLocals(info, a)]

\* LoadEntry taking "native method" for an error like any other.
LoadEntry_NativeFails(info, policy, a) ==
  IF a.declaring # JVMTI_ERROR_NONE THEN NULL
  ELSE LET local_instance == LoadLocalInstance(info, a) IN
    IF PolicyHides(policy, a)
    THEN [local_instance |-> local_instance, locals |-> <<>>]
    ELSE IF a.table \notin {JVMTI_ERROR_NONE, JVMTI_ERROR_ABSENT_INFORMATION}
    THEN NULL
    ELSE IF a.table # JVMTI_ERROR_NONE
    THEN [local_instance |-> local_instance, locals |-> <<>>]
    ELSE [local_instance |-> local_instance, locals |-> LoadLocals(info, a)]

\* MethodLocals::LoadEntry: the contents of the entry, or NULL on failure.
LoadEntry(info, policy, a) ==
  IF a.declaring # JVMTI_ERROR_NONE THEN NULL
  ELSE LET local_instance == LoadLocalInstance(info, a) IN
    IF PolicyHides(policy, a)
    THEN [local_instance |-> local_instance, locals |-> <<>>]
    ELSE IF a.table \notin {JVMTI_ERROR_NONE, JVMTI_ERROR_ABSENT_INFORMATION,
                            JVMTI_ERROR_NATIVE_METHOD}
    THEN NULL
    ELSE IF a.table # JVMTI_ERROR_NONE
    THEN [local_instance |-> local_instance, locals |-> <<>>]
    ELSE [local_instance |-> local_instance, locals |-> LoadLocals(info, a)]

\* Which JVMTI (and policy) calls one LoadEntry makes, and what each answers.
JvmtiCalls(info, policy, a) ==
  LET declared == a.declaring = JVMTI_ERROR_NONE
      instance == declared /\ a.modifiers = JVMTI_ERROR_NONE
                    /\ JVM_ACC_STATIC \notin info.modifiers
      asked == declared /\ policy # NULL
      tabled == declared /\ ~PolicyHides(policy, a)
      sized == tabled /\ a.table = JVMTI_ERROR_NONE /\ Len(info.table) > 0
  IN [GetMethodDeclaringClass |-> a.declaring,
      GetMethodModifiers |-> IF declared THEN a.modifiers ELSE NOT_CALLED,
      GetClassSignature |-> IF instance THEN a.signature ELSE NOT_CALLED,
      IsLocalVariablesDebuggerVisible |->
        IF asked THEN (IF a.visible THEN "visible" ELSE "hidden") ELSE NOT_CALLED,
      GetLocalVariableTable |-> IF tabled THEN a.table ELSE NOT_CALLED,
      GetArgumentsSize |-> IF sized THEN a.args ELSE NOT_CALLED]

\* new Entry: instance number id, no local instance, no locals.
NewEntry(id) == [id |-> id, local_instance |-> NULL, locals |-> <<>>]

\* The instance LoadEntry allocated at line 70, filled with the loaded contents.
LoadedEntry(id, contents) ==
  [id |-> id, local_instance |-> contents.local_instance, locals |-> contents.locals]

\* ------------------------------------------------------------ initial state
TypeOK ==
  /\ mu_ \in Threads \cup {NoThread}
  /\ pc \in [Threads -> STRING]
  /\ raced \in [Threads -> BOOLEAN]
  /\ unloaded \in [Methods -> 0..MaxUnloads]
  /\ Len(born) <= MaxEntries + 1 \/ Len(born) <= MaxLoads + 1
  /\ Len(cleanup) <= 2

InitRest ==
  /\ method_vars_ = [m \in Methods |-> NoEntry]
  /\ mu_ = NoThread
  /\ pc = [t \in Threads |-> "idle"]
  /\ method = [t \in Threads |-> NoMethod]
  /\ locals = [t \in Threads |-> NULL]
  /\ ret = [t \in Threads |-> NULL]
  /\ jvmti = [t \in Threads |-> NULL]
  /\ raced = [t \in Threads |-> FALSE]
  /\ fwd = [t \in Threads |-> <<>>]
  /\ cleanup = <<>>
  /\ born = <<>>
  /\ unloaded = [m \in Methods |-> 0]
  /\ started = [t \in Threads |-> 0]

\* The concurrent scenarios: two known methods, a policy configured.
Init ==
  /\ jvm = DefaultJvm
  /\ local_variables_visibility_policy_ = Policy
  /\ InitRest


\* ------------------------------------------------------------------ helpers
\* The JVMTI calls the thread's LoadEntry made, with their answers.
Calls(t) ==
  JvmtiCalls(jvm[method[t]], local_variables_visibility_policy_, jvmti[t])

Alive == cleanup = <<>>

\* Calls in flight that will still allocate an Entry.
Allocating == {u \in Threads : pc[u] \in {"reader_lock", "find", "load"}}

UnloadsBegun ==
  Cardinality({u \in Threads : pc[u] \in {"ml_unload", "erase"}})

RECURSIVE SumOver(_, _)
SumOver(f, S) ==
  IF S = {} THEN 0
  ELSE LET x == CHOOSE y \in S : TRUE IN f[x] + SumOver(f, S \ {x})

\* Threads whose erase found a mapping to remove: they write method_vars_.
\* An erase of a method without a mapping only searches the map.
ErasingWriters == {u \in Threads : pc[u] = "erase" /\ started[u] # 0}

\* MutexLock lock(&mu_): blocks until no thread holds mu_.
MutexLock(t) == mu_ = NoThread /\ mu_' = t

\* A lock object that outlives its block: mu_ stays held.
MutexUnlock_StillHeld(t) == mu_' = mu_

\* ~MutexLock
MutexUnlock(t) == mu_' = NoThread

\* --------------------------------------- MethodLocals::GetLocalVariables
\* At most max entries are allocated by calls that begin with the method not
\* cached, and one more by a call that begins with it cached.
GetLocalVariables_Call(t, m, max) ==
  /\ Alive
  /\ pc[t] = "idle"
  /\ Len(born) + Cardinality(Allocating)
       < (IF method_vars_[m] # NoEntry THEN max + 1 ELSE max)
  /\ pc' = [pc EXCEPT ![t] = "reader_lock"]
  /\ method' = [method EXCEPT ![t] = m]
  /\ started' = [started EXCEPT ![t] = unloaded[m]]
  /\ UNCHANGED <<jvm, local_variables_visibility_policy_, method_vars_, mu_,
                 locals, ret, jvmti, raced, fwd, cleanup, born, unloaded>>

\* Line 42: MutexLock reader_lock(&mu_).  From here to the end of the block
\* the thread reads method_vars_; an erase removing a mapping is a concurrent
\* write.
GetLocalVariables_ReaderLock(t) ==
  /\ pc[t] = "reader_lock"
  /\ MutexLock(t)
  /\ pc' = [pc EXCEPT ![t] = "find"]
  /\ raced' = [raced EXCEPT ![t] = ErasingWriters # {}]
  /\ UNCHANGED <<jvm, local_variables_visibility_policy_, method_vars_, method,
                 locals, ret, jvmti, fwd, cleanup, born, unloaded, started>>

\* What method_vars_.find(m) can return: the mapping, and when the lookup
\* raced with an erase also end().
FindResults(t, m) ==
  {method_vars_[m]} \cup (IF raced[t] THEN {NoEntry} ELSE {})

\* Lines 44-48: hit returns the stored entry, miss goes on to case 2.
GetLocalVariables_Find(t) ==
  /\ pc[t] = "find"
  /\ \E it \in FindResults(t, method[t]) :
       IF it # NoEntry
       THEN /\ ret' = [ret EXCEPT ![t] = it]
            /\ pc' = [pc EXCEPT ![t] = "get_ret"]
       ELSE /\ ret' = ret
            /\ pc' = [pc EXCEPT ![t] = "load"]
  /\ MutexUnlock(t)
  /\ raced' = [raced EXCEPT ![t] = FALSE]
  /\ UNCHANGED <<jvm, local_variables_visibility_policy_, method_vars_, method,
                 locals, jvmti, fwd, cleanup, born, unloaded, started>>

\* The failure path storing the empty entry it returns.
FailureResult_Cached(m, id) ==
  [map |-> [method_vars_ EXCEPT ![m] = NewEntry(id)], second |-> NewEntry(id)]

\* Lines 53-55, "Failure": the map afterwards and the value returned.
FailureResult(m, id) == [map |-> method_vars_, second |-> NewEntry(id)]

\* Lines 52-55: LoadEntry runs without the lock; on failure a new empty
\* Entry is returned and nothing is stored.
GetLocalVariables_LoadEntry(t, answers) ==
  /\ pc[t] = "load"
  /\ \E a \in answers :
       LET m == method[t]
           id == Len(born) + 1
           contents == LoadEntry(jvm[m], local_variables_visibility_policy_, a)
       IN /\ jvmti' = [jvmti EXCEPT ![t] = a]
          /\ born' = Append(born,
               [method |-> m, failed |-> contents = NULL, epoch |-> unloaded,
                table |-> JvmtiCalls(jvm[m], local_variables_visibility_policy_,
                                     a).GetLocalVariableTable])
          /\ IF contents = NULL
             THEN /\ locals' = [locals EXCEPT ![t] = NULL]
                  /\ ret' = [ret EXCEPT ![t] = FailureResult(m, id).second]
                  /\ method_vars_' = FailureResult(m, id).map
                  /\ pc' = [pc EXCEPT ![t] = "get_ret"]
             ELSE /\ locals' = [locals EXCEPT ![t] = LoadedEntry(id, contents)]
                  /\ ret' = ret
                  /\ method_vars_' = method_vars_
                  /\ pc' = [pc EXCEPT ![t] = "writer_lock"]
  /\ UNCHANGED <<jvm, local_variables_visibility_policy_, mu_,
                 method, raced, fwd, cleanup, unloaded, started>>

\* Line 57: MutexLock writer_lock(&mu_).  An erase removing a mapping is a
\* second writer of method_vars_: both writes race.  An erase that only
\* searches the map races with this write, and only the erase is affected.
GetLocalVariables_WriterLock(t) ==
  /\ pc[t] = "writer_lock"
  /\ MutexLock(t)
  /\ pc' = [pc EXCEPT ![t] = "insert"]
  /\ raced' = [u \in Threads |->
                 IF u = t THEN ErasingWriters # {}
                 ELSE raced[u] \/ pc[u] = "erase"]
  /\ UNCHANGED <<jvm, local_variables_visibility_policy_, method_vars_, method,
                 locals, ret, jvmti, fwd, cleanup, born, unloaded, started>>

\* method_vars_[m] = e: the new entry replaces a stored one.
InsertResults_Overwrites(t, m, e) ==
  {[map |-> [method_vars_ EXCEPT ![m] = e], second |-> e]}

\* method_vars_.insert(make_pair(m, e)): the map afterwards and in.first->second.
\* An insert that raced with an erase may also be lost: the caller still gets
\* the iterator to its own node, which the map does not hold.
InsertResults(t, m, e) ==
  {[map |-> IF method_vars_[m] = NoEntry
            THEN [method_vars_ EXCEPT ![m] = e] ELSE method_vars_,
    second |-> IF method_vars_[m] = NoEntry THEN e ELSE method_vars_[m]]}
  \cup (IF raced[t] THEN {[map |-> method_vars_, second |-> e]} ELSE {})

\* Lines 59-62.
GetLocalVariables_Insert(t) ==
  /\ pc[t] = "insert"
  /\ \E in \in InsertResults(t, method[t], locals[t]) :
       /\ method_vars_' = in.map
       /\ ret' = [ret EXCEPT ![t] = in.second]
  /\ MutexUnlock(t)
  /\ pc' = [pc EXCEPT ![t] = "get_ret"]
  /\ raced' = [raced EXCEPT ![t] = FALSE]
  /\ UNCHANGED <<jvm, local_variables_visibility_policy_, method, locals,
                 jvmti, fwd, cleanup, born, unloaded, started>>


\* ------------------------------------------------ Debugger's event handlers
\* The collaborator calls of each handler, in statement order.
ClassPrepareCalls(cls) ==
  << <<"class_indexer_", "JvmtiOnClassPrepare", cls>> >>

CompiledMethodUnloadCalls(m) ==
  << <<"eval_call_stack_", "JvmtiOnCompiledMethodUnload", m>>,
     <<"method_locals_", "JvmtiOnCompiledMethodUnload", m>>,
     <<"breakpoints_manager_", "JvmtiOnCompiledMethodUnload", m>> >>

BreakpointCalls(m) ==
  << <<"breakpoints_manager_", "JvmtiOnBreakpoint", m>> >>

\* The destructor cleaning up the class indexer first.
DestructorCalls_Reversed ==
  <<"class_indexer_.Cleanup", "breakpoints_manager_->Cleanup">>

\* The Cleanup calls of ~Debugger, in statement order.
DestructorCalls ==
  <<"breakpoints_manager_->Cleanup", "class_indexer_.Cleanup">>

\* Debugger::JvmtiOnClassPrepare
Debugger_JvmtiOnClassPrepare(t) ==
  /\ Alive
  /\ pc[t] = "idle"
  /\ fwd' = [fwd EXCEPT ![t] = ClassPrepareCalls("C")]
  /\ pc' = [pc EXCEPT ![t] = "prepare_ret"]
  /\ UNCHANGED <<jvm, local_variables_visibility_policy_, method_vars_, mu_,
                 method, locals, ret, jvmti, raced, cleanup, born, unloaded, started>>

\* Debugger::JvmtiOnBreakpoint
Debugger_JvmtiOnBreakpoint(t, m) ==
  /\ Alive
  /\ pc[t] = "idle"
  /\ fwd' = [fwd EXCEPT ![t] = BreakpointCalls(m)]
  /\ pc' = [pc EXCEPT ![t] = "breakpoint_ret"]
  /\ UNCHANGED <<jvm, local_variables_visibility_policy_, method_vars_, mu_,
                 method, locals, ret, jvmti, raced, cleanup, born, unloaded, started>>

\* Debugger::JvmtiOnCompiledMethodUnload, line 129: the call-stack tracker.
Debugger_JvmtiOnCompiledMethodUnload(t, m) ==
  /\ Alive
  /\ pc[t] = "idle"
  /\ SumOver(unloaded, Methods) + UnloadsBegun < MaxUnloads
  /\ method' = [method EXCEPT ![t] = m]
  /\ fwd' = [fwd EXCEPT ![t] = SubSeq(CompiledMethodUnloadCalls(m), 1, 1)]
  /\ pc' = [pc EXCEPT ![t] = "ml_unload"]
  /\ UNCHANGED <<jvm, local_variables_visibility_policy_, method_vars_, mu_,
                 locals, ret, jvmti, raced, cleanup, born, unloaded, started>>

\* MethodLocals::JvmtiOnCompiledMethodUnload, line 34: method_vars_.erase
\* begins.  No lock is taken.  If the method has a mapping the erase writes the
\* map: a thread inside the lookup block reads the map while it is written,
\* and a thread inside the insert block or another erase accesses it at the
\* same time.  The erase itself races with every write in progress.
MethodLocals_JvmtiOnCompiledMethodUnload(t) ==
  /\ pc[t] = "ml_unload"
  /\ pc' = [pc EXCEPT ![t] = "erase"]
  /\ raced' = [u \in Threads |->
                 IF u = t
                 THEN \/ \E w \in Threads \ {t} : pc[w] = "insert"
                      \/ ErasingWriters \ {t} # {}
                 ELSE \/ raced[u]
                      \/ /\ method_vars_[method[t]] # NoEntry
                         /\ pc[u] \in {"find", "insert", "erase"}]
  /\ started' = [started EXCEPT ![t] = IF method_vars_[method[t]] = NoEntry
                                       THEN 0 ELSE method_vars_[method[t]].id]
  /\ UNCHANGED <<jvm, local_variables_visibility_policy_, method_vars_, mu_,
                 method, locals, ret, jvmti, fwd, cleanup, born, unloaded>>

\* The map after method_vars_.erase(m).  An erase that raced with another
\* write may also be lost.
EraseResults(t, m) ==
  {[method_vars_ EXCEPT ![m] = NoEntry]}
  \cup (IF raced[t] THEN {method_vars_} ELSE {})

\* Line 34 completes and MethodLocals::JvmtiOnCompiledMethodUnload returns.
MethodLocals_Erase(t) ==
  /\ pc[t] = "erase"
  /\ method_vars_' \in EraseResults(t, method[t])
  /\ raced' = [raced EXCEPT ![t] = FALSE]
  /\ unloaded' = [unloaded EXCEPT ![method[t]] = @ + 1]
  /\ fwd' = [fwd EXCEPT ![t] = Append(@, CompiledMethodUnloadCalls(method[t])[2])]
  /\ pc' = [pc EXCEPT ![t] = "bm_unload"]
  /\ UNCHANGED <<jvm, local_variables_visibility_policy_, mu_, method, locals,
                 ret, jvmti, cleanup, born, started>>

\* Debugger::JvmtiOnCompiledMethodUnload, line 131: the breakpoint manager.
Debugger_UnloadBreakpoints(t) ==
  /\ pc[t] = "bm_unload"
  /\ fwd' = [fwd EXCEPT ![t] = Append(@, CompiledMethodUnloadCalls(method[t])[3])]
  /\ pc' = [pc EXCEPT ![t] = "unload_ret"]
  /\ UNCHANGED <<jvm, local_variables_visibility_policy_, method_vars_, mu_,
                 method, locals, ret, jvmti, raced, cleanup, born, unloaded, started>>

ReturnPcs == {"get_ret", "prepare_ret", "breakpoint_ret", "unload_ret"}

\* The handler or GetLocalVariables returns to its caller.
Return(t) ==
  /\ pc[t] \in ReturnPcs
  /\ pc' = [pc EXCEPT ![t] = "idle"]
  /\ method' = [method EXCEPT ![t] = NoMethod]
  /\ locals' = [locals EXCEPT ![t] = NULL]
  /\ ret' = [ret EXCEPT ![t] = NULL]
  /\ jvmti' = [jvmti EXCEPT ![t] = NULL]
  /\ fwd' = [fwd EXCEPT ![t] = <<>>]
  /\ started' = [started EXCEPT ![t] = 0]
  /\ UNCHANGED <<jvm, local_variables_visibility_policy_, method_vars_, mu_,
                 raced, cleanup, born, unloaded>>

\* Debugger::~Debugger, one Cleanup call per step; no handler is running.
Debugger_Destructor ==
  /\ \A t \in Threads : pc[t] = "idle"
  /\ Len(cleanup) < Len(DestructorCalls)
  /\ cleanup' = Append(cleanup, DestructorCalls[Len(cleanup) + 1])
  /\ UNCHANGED <<jvm, local_variables_visibility_policy_, method_vars_, mu_, pc,
                 method, locals, ret, jvmti, raced, fwd, born, unloaded, started>>

\* ------------------------------------------------------------ specifications
Next ==
  \/ \E t \in Threads, m \in Methods : GetLocalVariables_Call(t, m, MaxEntries)
  \/ \E t \in Threads : GetLocalVariables_ReaderLock(t)
  \/ \E t \in Threads : GetLocalVariables_Find(t)
  \/ \E t \in Threads : GetLocalVariables_LoadEntry(t, SomeAnswers)
  \/ \E t \in Threads : GetLocalVariables_WriterLock(t)
  \/ \E t \in Threads : GetLocalVariables_Insert(t)
  \/ \E t \in Threads : Debugger_JvmtiOnClassPrepare(t)
  \/ \E t \in Threads, m \in Methods : Debugger_JvmtiOnBreakpoint(t, m)
  \/ \E t \in Threads, m \in Methods : Debugger_JvmtiOnCompiledMethodUnload(t, m)
  \/ \E t \in Threads : MethodLocals_JvmtiOnCompiledMethodUnload(t)
  \/ \E t \in Threads : MethodLocals_Erase(t)
  \/ \E t \in Threads : Debugger_UnloadBreakpoints(t)
  \/ \E t \in Threads : Return(t)
  \/ Debugger_Destructor

Spec == Init /\ [][Next]_vars


\* The sequential scenarios: one caller, no unload, any method the runtime
\* can describe as "m1", a policy configured or not, every answer possible.
Caller == CHOOSE t \in Threads : TRUE

InitLoad ==
  /\ jvm \in {[DefaultJvm EXCEPT !["m1"] = info] : info \in MethodInfos}
  /\ local_variables_visibility_policy_ \in {NULL, Policy}
  /\ InitRest

NextLoad ==
  \/ GetLocalVariables_Call(Caller, "m1", MaxLoads)
  \/ GetLocalVariables_ReaderLock(Caller)
  \/ GetLocalVariables_Find(Caller)
  \/ GetLocalVariables_LoadEntry(Caller, Answers)
  \/ GetLocalVariables_WriterLock(Caller)
  \/ GetLocalVariables_Insert(Caller)
  \/ Return(Caller)

SpecLoad == InitLoad /\ [][NextLoad]_vars


\* The debugger alone: its event handlers and its destructor, with no caller
\* of GetLocalVariables.
NextDebugger ==
  \/ \E t \in Threads : Debugger_JvmtiOnClassPrepare(t)
  \/ \E t \in Threads, m \in Methods : Debugger_JvmtiOnBreakpoint(t, m)
  \/ \E t \in Threads, m \in Methods : Debugger_JvmtiOnCompiledMethodUnload(t, m)
  \/ \E t \in Threads : MethodLocals_JvmtiOnCompiledMethodUnload(t)
  \/ \E t \in Threads : MethodLocals_Erase(t)
  \/ \E t \in Threads : Debugger_UnloadBreakpoints(t)
  \/ \E t \in Threads : Return(t)
  \/ Debugger_Destructor

SpecDebugger == Init /\ [][NextDebugger]_vars

\* The cache under fair scheduling: the callers of GetLocalVariables and the
\* unload handler.  A thread that can take a step of its call eventually
\* takes it: the runtime's calls return, and a thread waiting for mu_ gets it
\* if mu_ is free again and again.
NextCache ==
  \/ \E t \in Threads, m \in Methods : GetLocalVariables_Call(t, m, MaxEntries)
  \/ \E t \in Threads : GetLocalVariables_ReaderLock(t)
  \/ \E t \in Threads : GetLocalVariables_Find(t)
  \/ \E t \in Threads : GetLocalVariables_LoadEntry(t, FairAnswers)
  \/ \E t \in Threads : GetLocalVariables_WriterLock(t)
  \/ \E t \in Threads : GetLocalVariables_Insert(t)
  \/ \E t \in Threads, m \in Methods : Debugger_JvmtiOnCompiledMethodUnload(t, m)
  \/ \E t \in Threads : MethodLocals_JvmtiOnCompiledMethodUnload(t)
  \/ \E t \in Threads : MethodLocals_Erase(t)
  \/ \E t \in Threads : Debugger_UnloadBreakpoints(t)
  \/ \E t \in Threads : Return(t)

\* The thread takes mu_.
TakesLock(t) ==
  GetLocalVariables_ReaderLock(t) \/ GetLocalVariables_WriterLock(t)

\* The thread takes a step of its call that waits for no other thread.
Runs(t) ==
  \/ GetLocalVariables_Find(t)
  \/ GetLocalVariables_LoadEntry(t, FairAnswers)
  \/ GetLocalVariables_Insert(t)
  \/ MethodLocals_JvmtiOnCompiledMethodUnload(t)
  \/ MethodLocals_Erase(t)
  \/ Debugger_UnloadBreakpoints(t)

FairScheduling ==
  \A t \in Threads : WF_vars(Runs(t)) /\ SF_vars(TakesLock(t))

SpecFair == Init /\ [][NextCache]_vars /\ FairScheduling

\* ================================================================== claims
\* The thread's GetLocalVariables call has its return value.
Returned(t) == pc[t] = "get_ret"

\* No unload of the method of t's call has completed since the call began,
\* and none is about to erase or erasing.
NoUnloadOfMethodMeanwhile(t) ==
  /\ unloaded[method[t]] = started[t]
  /\ \A u \in Threads : ~(pc[u] \in {"ml_unload", "erase"} /\ method[u] = method[t])

\* The load of t's call failed: LoadEntry returned nullptr.
LoadFailed(t) == jvmti[t] # NULL /\ locals[t] = NULL

\* C1: once the cache's unload handler for a method has returned, a
\* GetLocalVariables call for that method that starts afterwards never returns
\* an entry whose load was started before that unload: the entry it returns was
\* allocated when at least as many unloads of the method had completed as when
\* the call began.
C1_NoStaleEntryAfterUnload ==
  \A t \in Threads :
    Returned(t) => born[ret[t].id].epoch[method[t]] >= started[t]

\* C2: with no unload of the method meanwhile, every GetLocalVariables call
\* whose load did not fail returns the one entry instance stored for the
\* method, so concurrent callers all get the instance of the first insert.
C2_FirstInsertWins ==
  \A t \in Threads :
    (Returned(t) /\ ~LoadFailed(t) /\ NoUnloadOfMethodMeanwhile(t))
      => ret[t] = method_vars_[method[t]]

\* C3: while a thread erases from method_vars_, no other thread is inside the
\* locked lookup block, the locked insert block or another erase.
C3_EraseSerialised ==
  \A t, u \in Threads :
    (t # u /\ pc[t] = "erase") => pc[u] \notin {"find", "insert", "erase"}

\* The declaring-class lookup failed, or the table lookup was made and failed
\* with an error other than "absent information" and "native method".
TransientFailure(t) ==
  /\ jvmti[t] # NULL
  /\ \/ Calls(t).GetMethodDeclaringClass # JVMTI_ERROR_NONE
     \/ Calls(t).GetLocalVariableTable \notin
          {NOT_CALLED, JVMTI_ERROR_NONE, JVMTI_ERROR_ABSENT_INFORMATION,
           JVMTI_ERROR_NATIVE_METHOD}

C4_TransientFailureStep(t) ==
  (pc[t] = "load" /\ pc'[t] # "load" /\ TransientFailure(t)')
    => /\ pc'[t] = "get_ret"
       /\ ret'[t].id > Len(born)
       /\ ret'[t].local_instance = NULL
       /\ ret'[t].locals = <<>>
       /\ method_vars_' = method_vars_
       /\ \A m \in Methods : method_vars_'[m] # ret'[t]

\* C4: a GetLocalVariables call whose load fails transiently returns right
\* after the load, with an entry allocated for this return that has no local
\* instance and no locals and that no mapping holds, and the step leaves every
\* mapping of the cache as it was.
C4_TransientFailureNotCached ==
  [][\A t \in Threads : C4_TransientFailureStep(t)]_vars

\* A call has failed on the table lookup while the cache holds an entry of
\* the other method.
C4_Witness ==
  \E t \in Threads :
    /\ Returned(t)
    /\ TransientFailure(t)
    /\ Calls(t).GetLocalVariableTable = JVMTI_ERROR_INTERNAL
    /\ \E m \in Methods : m # method[t] /\ method_vars_[m] # NoEntry


\* The first load of the method that did not fail, as a number of born; 0 if none.
FirstSuccess(m) ==
  LET ok == {i \in 1..Len(born) : born[i].method = m /\ ~born[i].failed}
  IN IF ok = {} THEN 0 ELSE CHOOSE i \in ok : \A j \in ok : i <= j

\* The thread's call ran LoadEntry and it produced an entry.
Produced(t) == locals[t] # NULL

C5_LookupStep(t) ==
  (pc[t] = "find" /\ pc'[t] # "find")
    => IF FirstSuccess(method[t]) = 0
       THEN pc'[t] = "load"
       ELSE /\ pc'[t] = "get_ret"
            /\ ret'[t] = method_vars_[method[t]]
            /\ Len(born') = Len(born)

C5_CacheState ==
  \A m \in Methods :
    /\ FirstSuccess(m) = 0 => method_vars_[m] = NoEntry
    /\ method_vars_[m] # NoEntry
         => /\ method_vars_[m].id = FirstSuccess(m)
            /\ ~born[method_vars_[m].id].failed
    /\ \A t \in Threads :
         (Returned(t) /\ method[t] = m /\ Produced(t))
           => /\ ret[t] = locals[t]
              /\ method_vars_[m] = locals[t]
              /\ locals[t].id = FirstSuccess(m)

\* C5: with no unload, as long as every load of a method has failed the cache
\* holds no mapping for it and each call's lookup goes on to run the load
\* again; the call whose load succeeds stores the entry it loaded, which is no
\* empty failure entry; and every later call's lookup returns that stored
\* entry without another load.
C5_NoPermanentPoisoning ==
  [][C5_CacheState' /\ \A t \in Threads : C5_LookupStep(t)]_vars

\* Two loads have failed, the third succeeded and its call returns the entry
\* it stored.
C5_Witness ==
  /\ Len(born) = 3
  /\ born[1].failed /\ born[2].failed /\ ~born[3].failed
  /\ \E t \in Threads :
       Returned(t) /\ Produced(t) /\ method_vars_[method[t]] = ret[t]

\* C6: with no unload of the method meanwhile, any two GetLocalVariables
\* calls for it return entries with the same variable list in the same order.
C6_SameVariableList ==
  \A t, u \in Threads :
    (/\ Returned(t) /\ Returned(u) /\ method[t] = method[u]
     /\ NoUnloadOfMethodMeanwhile(t) /\ NoUnloadOfMethodMeanwhile(u))
      => ret[t].locals = ret[u].locals

CleanupCount(call) ==
  Cardinality({i \in 1..Len(cleanup) : cleanup[i] = call})

\* C7: the destructor calls each Cleanup at most once, the class indexer's
\* only after the breakpoint manager's, and when it is done both were called.
C7_TeardownOrder ==
  /\ CleanupCount("breakpoints_manager_->Cleanup") <= 1
  /\ CleanupCount("class_indexer_.Cleanup") <= 1
  /\ \A i \in 1..Len(cleanup) :
       cleanup[i] = "class_indexer_.Cleanup"
         => \E j \in 1..(i - 1) : cleanup[j] = "breakpoints_manager_->Cleanup"
  /\ (~Alive /\ ~ENABLED Debugger_Destructor)
       => /\ CleanupCount("breakpoints_manager_->Cleanup") = 1
          /\ CleanupCount("class_indexer_.Cleanup") = 1

\* The destructor has made its last call, the class indexer's Cleanup.
C7_Witness ==
  /\ Len(cleanup) = 2
  /\ cleanup[2] = "class_indexer_.Cleanup"
  /\ ~ENABLED Debugger_Destructor

C8_Forwarded(t) ==
  /\ pc[t] = "prepare_ret"
       => fwd[t] = << <<"class_indexer_", "JvmtiOnClassPrepare", "C">> >>
  /\ pc[t] = "breakpoint_ret"
       => /\ Len(fwd[t]) = 1
          /\ fwd[t][1][1] = "breakpoints_manager_"
          /\ fwd[t][1][2] = "JvmtiOnBreakpoint"
  /\ pc[t] = "unload_ret"
       => fwd[t] = << <<"eval_call_stack_", "JvmtiOnCompiledMethodUnload", method[t]>>,
                      <<"method_locals_", "JvmtiOnCompiledMethodUnload", method[t]>>,
                      <<"breakpoints_manager_", "JvmtiOnCompiledMethodUnload", method[t]>> >>

C8_Erased(t) ==
  (pc[t] = "erase" /\ pc'[t] # "erase") => method_vars_'[method[t]] = NoEntry

\* C8: when a handler of the debugger returns it has called exactly its
\* collaborators (class prepare: the class indexer; unload: call-stack tracker,
\* metadata cache and breakpoint manager, once each with the method;
\* breakpoint: the breakpoint manager), and when the cache's unload handler
\* returns the mapping of the method is gone.
C8_EventsForwarded ==
  [][\A t \in Threads : C8_Forwarded(t)' /\ C8_Erased(t)]_vars

IsStatic(t) == JVM_ACC_STATIC \in jvm[method[t]].modifiers

\* The reader of "this": slot 0, valid over the whole method, an argument.
IsThisDescriptor(t, reader) ==
  reader = [name |-> "this", signature |-> jvm[method[t]].class_signature,
            slot |-> 0, start_location |-> 0, length |-> -1, is_argument |-> TRUE]

\* C9: an entry LoadEntry produces has no local instance if the method is
\* static, and has the "this" descriptor if the method is not static and the
\* runtime answers the class-signature lookup with success.
C9_InstanceDescriptor ==
  \A t \in Threads :
    Produced(t)
      => /\ IsStatic(t) => locals[t].local_instance = NULL
         /\ (~IsStatic(t) /\ jvmti[t].signature = JVMTI_ERROR_NONE)
              => IsThisDescriptor(t, locals[t].local_instance)

\* C9 as amended: an entry LoadEntry produces has no local instance if the
\* method is static, and has the "this" descriptor if the method is not static
\* and both the method-modifier lookup and the class-signature lookup succeed.
C9_InstanceDescriptorAmended ==
  \A t \in Threads :
    Produced(t)
      => /\ IsStatic(t) => locals[t].local_instance = NULL
         /\ (/\ ~IsStatic(t)
             /\ jvmti[t].modifiers = JVMTI_ERROR_NONE
             /\ jvmti[t].signature = JVMTI_ERROR_NONE)
              => IsThisDescriptor(t, locals[t].local_instance)

\* A call on a method that is not static has stored an entry with "this".
C9_Witness ==
  \E t \in Threads :
    /\ Returned(t) /\ Produced(t) /\ ~IsStatic(t)
    /\ IsThisDescriptor(t, locals[t].local_instance)
    /\ method_vars_[method[t]] = locals[t]

\* Reader i of the entry describes table entry i.
DescribesTableEntry(reader, entry) ==
  /\ reader.name = entry.name /\ reader.signature = entry.signature
  /\ reader.slot = entry.slot /\ reader.start_location = entry.start_location
  /\ reader.length = entry.length

TableLoaded(t) ==
  Produced(t) /\ Calls(t).GetLocalVariableTable = JVMTI_ERROR_NONE

\* C10: when the table lookup succeeds the entry has one reader per table
\* entry, in table order, and reader i is an argument exactly if the slot of
\* table entry i is below the method's argument-slot count.
C10_ArgumentClassification ==
  \A t \in Threads :
    TableLoaded(t)
      => LET table == jvm[method[t]].table
             readers == locals[t].locals
         IN /\ Len(readers) = Len(table)
            /\ \A i \in 1..Len(table) :
                 /\ DescribesTableEntry(readers[i], table[i])
                 /\ readers[i].is_argument
                      <=> table[i].slot < jvm[method[t]].arguments_size

\* C10 as amended: ... reader i is an argument exactly if the argument-size
\* lookup succeeded and the slot of table entry i is below the argument-slot
\* count; when that lookup fails the count is taken as zero and every reader
\* is a local.
C10_ArgumentClassificationAmended ==
  \A t \in Threads :
    TableLoaded(t)
      => LET table == jvm[method[t]].table
             readers == locals[t].locals
         IN /\ Len(readers) = Len(table)
            /\ \A i \in 1..Len(table) :
                 /\ DescribesTableEntry(readers[i], table[i])
                 /\ readers[i].is_argument
                      <=> (/\ jvmti[t].args = JVMTI_ERROR_NONE
                           /\ table[i].slot < jvm[method[t]].arguments_size)

\* An entry with an argument followed by a local, from a table of two entries.
C10_Witness ==
  \E t \in Threads :
    /\ TableLoaded(t)
    /\ Len(locals[t].locals) = 2
    /\ locals[t].locals[1].is_argument
    /\ ~locals[t].locals[2].is_argument
    /\ locals[t].locals[1].slot < locals[t].locals[2].slot


\* The policy was asked about the method of t's load and denied visibility.
PolicyDenied(t) ==
  jvmti[t] # NULL /\ Calls(t).IsLocalVariablesDebuggerVisible = "hidden"

\* The entry stored for the method came from a load the policy cut short.
StoredByDenial(m) ==
  /\ method_vars_[m] # NoEntry
  /\ ~born[method_vars_[m].id].failed
  /\ born[method_vars_[m].id].table = NOT_CALLED

C11_DeniedLoadStep(t) ==
  (pc[t] = "load" /\ pc'[t] # "load" /\ PolicyDenied(t)')
    => /\ pc'[t] = "writer_lock"
       /\ locals'[t] # NULL
       /\ locals'[t].locals = <<>>
       /\ (/\ ~IsStatic(t)
           /\ jvmti'[t].modifiers = JVMTI_ERROR_NONE
           /\ jvmti'[t].signature = JVMTI_ERROR_NONE)
            => IsThisDescriptor(t, locals'[t].local_instance)
       /\ Calls(t)'.GetLocalVariableTable = NOT_CALLED
       /\ Calls(t)'.GetArgumentsSize = NOT_CALLED

C11_DeniedStored(t) ==
  (Returned(t) /\ PolicyDenied(t))
    => /\ ret[t] = locals[t]
       /\ method_vars_[method[t]] = locals[t]
       /\ ret[t].locals = <<>>

C11_LaterLookupStep(t) ==
  (pc[t] = "find" /\ pc'[t] # "find" /\ StoredByDenial(method[t]))
    => /\ pc'[t] = "get_ret"
       /\ ret'[t] = method_vars_[method[t]]
       /\ jvmti'[t] = NULL
       /\ born' = born
       /\ method_vars_' = method_vars_

\* C11: when the configured policy denies visibility for the method, the load
\* does not fail and does not fetch the table or the argument size; the call
\* stores and returns an entry with no variables and with the "this"
\* descriptor if it was resolved; and, with no unload, the lookup of every
\* later call returns that stored entry with no policy or runtime call and no
\* new entry allocated.
C11_PolicyDenialCached ==
  [][\A t \in Threads :
       /\ C11_DeniedLoadStep(t)
       /\ C11_DeniedStored(t)'
       /\ C11_LaterLookupStep(t)]_vars

\* A later call has returned, from its lookup, the entry a denied load of an
\* instance method with a table of variables stored.
C11_Witness ==
  \E t \in Threads :
    /\ Returned(t) /\ jvmti[t] = NULL
    /\ StoredByDenial(method[t])
    /\ ret[t] = method_vars_[method[t]]
    /\ ret[t].locals = <<>>
    /\ IsThisDescriptor(t, ret[t].local_instance)
    /\ Len(jvm[method[t]].table) > 0


\* The answer to the table lookup of t's load, NOT_CALLED if it was not made.
TableAnswer(t) == Calls(t).GetLocalVariableTable

NoDebugInfo == {JVMTI_ERROR_ABSENT_INFORMATION, JVMTI_ERROR_NATIVE_METHOD}

C12_LoadStep(t) ==
  (pc[t] = "load" /\ pc'[t] # "load")
    => LET answer == TableAnswer(t)'
           table == jvm[method[t]].table
       IN /\ answer = JVMTI_ERROR_NONE
               => /\ pc'[t] = "writer_lock"
                  /\ Len(locals'[t].locals) = Len(table)
                  /\ \A i \in 1..Len(table) :
                       DescribesTableEntry(locals'[t].locals[i], table[i])
          /\ answer \in NoDebugInfo
               => /\ pc'[t] = "writer_lock"
                  /\ locals'[t].locals = <<>>
          /\ answer \notin ({NOT_CALLED, JVMTI_ERROR_NONE} \cup NoDebugInfo)
               => /\ pc'[t] = "get_ret"
                  /\ locals'[t] = NULL
                  /\ method_vars_' = method_vars_
                  /\ method_vars_'[method[t]] # ret'[t]

C12_Stored(t) ==
  (Returned(t) /\ jvmti[t] # NULL
     /\ TableAnswer(t) \in ({JVMTI_ERROR_NONE} \cup NoDebugInfo))
    => /\ ret[t] = locals[t]
       /\ method_vars_[method[t]] = locals[t]

C12_LookupStep(t) ==
  (pc[t] = "find" /\ pc'[t] # "find")
    => LET stored == method_vars_[method[t]] IN
       IF stored # NoEntry
       THEN /\ pc'[t] = "get_ret"
            /\ ret'[t] = stored
            /\ jvmti'[t] = NULL
            /\ born' = born
       ELSE /\ pc'[t] = "load"
            /\ \A i \in 1..Len(born) :
                 born[i].method = method[t]
                   => born[i].table \notin ({JVMTI_ERROR_NONE} \cup NoDebugInfo)

\* C12: a table lookup that succeeds gives an entry with one reader per table
\* entry, and one that reports "absent information" or "native method" gives
\* an entry with no readers; either entry is stored, and the lookup of later
\* calls returns it with no runtime call.  Any other error fails the load with
\* nothing stored, and the lookup of the next call for the method misses and
\* goes on to the load again.
C12_TableOutcomes ==
  [][\A t \in Threads :
       C12_LoadStep(t) /\ C12_Stored(t)' /\ C12_LookupStep(t)]_vars

\* The table lookup failed with another error, the next call repeated it and
\* was told "native method", and a third call got the stored entry from its
\* lookup.
C12_Witness ==
  \E t \in Threads :
    /\ Len(born) = 2
    /\ born[1].table = JVMTI_ERROR_INTERNAL /\ born[1].failed
    /\ born[2].table = JVMTI_ERROR_NATIVE_METHOD /\ ~born[2].failed
    /\ Returned(t) /\ jvmti[t] = NULL
    /\ ret[t] = method_vars_[method[t]]
    /\ ret[t].id = 2
    /\ ret[t].locals = <<>>
    /\ Len(jvm[method[t]].table) > 0


\* The answers of t's load, had the method-modifier, class-signature and
\* argument-size lookups all succeeded.
WithoutDegradation(a) ==
  [a EXCEPT !.modifiers = JVMTI_ERROR_NONE, !.signature = JVMTI_ERROR_NONE,
            !.args = JVMTI_ERROR_NONE]

ArgumentsSizeFailed(t) ==
  Calls(t).GetArgumentsSize \notin {NOT_CALLED, JVMTI_ERROR_NONE}

LocalInstanceFailed(t) ==
  \/ Calls(t).GetMethodModifiers \notin {NOT_CALLED, JVMTI_ERROR_NONE}
  \/ Calls(t).GetClassSignature \notin {NOT_CALLED, JVMTI_ERROR_NONE}

\* C13: if the load would produce an entry with the method-modifier,
\* class-signature and argument-size lookups succeeding, it produces one with
\* any of them failing, and the call stores it: the readers describe the same
\* variables in the same order; when the argument-size lookup failed none is
\* an argument, otherwise each is classified as without the failure; when the
\* modifier or signature lookup failed there is no local instance, otherwise
\* it is the one resolved without the failure.
C13_PartialDegradation ==
  \A t \in Threads :
    jvmti[t] # NULL
      => LET ref == LoadEntry(jvm[method[t]], local_variables_visibility_policy_,
                              WithoutDegradation(jvmti[t]))
         IN ref # NULL
              => /\ Produced(t)
                 /\ Len(locals[t].locals) = Len(ref.locals)
                 /\ \A i \in 1..Len(ref.locals) :
                      /\ DescribesTableEntry(locals[t].locals[i], ref.locals[i])
                      /\ locals[t].locals[i].is_argument
                           = IF ArgumentsSizeFailed(t) THEN FALSE
                             ELSE ref.locals[i].is_argument
                 /\ locals[t].local_instance
                      = IF LocalInstanceFailed(t) THEN NULL ELSE ref.local_instance
                 /\ Returned(t)
                      => ret[t] = locals[t] /\ method_vars_[method[t]] = locals[t]

\* A load of an instance method with two variables, the first in an argument
\* slot, met a failing modifier lookup and a failing argument-size lookup, and
\* its call stored the entry: no local instance, two locals.
C13_Witness ==
  \E t \in Threads :
    /\ Returned(t) /\ Produced(t)
    /\ ArgumentsSizeFailed(t) /\ LocalInstanceFailed(t)
    /\ ~IsStatic(t)
    /\ method_vars_[method[t]] = locals[t]
    /\ locals[t].local_instance = NULL
    /\ Len(locals[t].locals) = 2
    /\ locals[t].locals[1].slot < jvm[method[t]].arguments_size
    /\ \A i \in 1..2 : ~locals[t].locals[i].is_argument


\* The thread is inside LoadEntry, making its calls to the runtime.
Loading(t) == pc[t] = "load"

\* The thread waits for mu_ at the start of GetLocalVariables.
AtLookup(t) == pc[t] = "reader_lock"

\* C14: a thread inside LoadEntry does not hold mu_, and while threads are
\* inside LoadEntry a thread arriving at the lookup of GetLocalVariables, for
\* any method, takes mu_ at once unless a thread that is not loading is
\* inside a locked block.
C14_LoadRunsUnlocked ==
  /\ \A t \in Threads : Loading(t) => mu_ # t
  /\ \A t, u \in Threads :
       (/\ Loading(t) /\ AtLookup(u)
        /\ \A w \in Threads : pc[w] \notin {"find", "insert"})
         => ENABLED GetLocalVariables_ReaderLock(u)

\* While one thread loads a method, another has taken mu_ and is inside the
\* locked lookup for the other method.
C14_Witness ==
  \E t, u \in Threads :
    /\ Loading(t) /\ pc[u] = "find" /\ mu_ = u
    /\ method[t] # method[u]


C15_HitStep(t) ==
  (/\ pc[t] = "find" /\ pc'[t] # "find"
   /\ method_vars_[method[t]] # NoEntry /\ NoUnloadOfMethodMeanwhile(t))
    => /\ pc'[t] = "get_ret"
       /\ ret'[t] = method_vars_[method[t]]
       /\ jvmti'[t] = NULL
       /\ born' = born

\* C15: a call whose lookup runs while the cache holds a mapping for its
\* method, no unload of that method having run since the call began, returns the stored entry from the lookup and goes on to no load, so
\* that while the mapping stays no later call allocates or loads an entry for
\* the method.
C15_HitReturnsStored ==
  [][\A t \in Threads : C15_HitStep(t)]_vars


\* The entry instances a caller or the cache holds.
EntriesHeld ==
  {ret[t] : t \in {u \in Threads : Returned(u)}}
    \cup {method_vars_[m] : m \in {n \in Methods : method_vars_[n] # NoEntry}}

C16_MappingStep(m) ==
  method_vars_[m] # NoEntry => method_vars_'[m] \in {method_vars_[m], NoEntry}

C16_InsertStep(t) ==
  (pc[t] = "insert" /\ pc'[t] # "insert" /\ method_vars_[method[t]] # NoEntry)
    => method_vars_' = method_vars_

C16_EraseStep(t) ==
  (pc[t] = "erase" /\ pc'[t] # "erase")
    => /\ ret' = ret
       /\ \A m \in Methods : method_vars_'[m] \in {method_vars_[m], NoEntry}

C16_HeldStep(t) ==
  (Returned(t) /\ Returned(t)') => ret'[t] = ret[t]

\* C16: the cache maps a method to one entry, loaded for that method, and no
\* entry instance is held with two different contents; a step never changes
\* a mapping that exists except to remove it: an insert for a method that has
\* a mapping leaves the cache as it is, and an
\* erase removes mappings only and leaves the entries callers hold as they are.
C16_EntriesImmutable ==
  [][/\ \A m \in Methods : C16_MappingStep(m)
     /\ \A t \in Threads : C16_InsertStep(t) /\ C16_EraseStep(t) /\ C16_HeldStep(t)
     /\ \A m \in Methods :
          method_vars_'[m] # NoEntry => born'[method_vars_'[m].id].method = m
     /\ \A e, f \in EntriesHeld' : e.id = f.id => e = f]_vars

\* Two callers loaded the method; the insert of the second found the mapping
\* of the first and both hold the stored entry.
C16_Witness ==
  \E t, u \in Threads :
    /\ t # u /\ Returned(t) /\ Returned(u) /\ method[t] = method[u]
    /\ Produced(t) /\ Produced(u)
    /\ ret[t] # locals[t]
    /\ ret[t] = ret[u] /\ method_vars_[method[t]] = ret[t]


\* The entry that was mapped to the method when t's erase began is still
\* mapped to it, and no other thread is in a call for the method.
MappingSinceEraseBegan(t) ==
  /\ \A u \in Threads \ {t} : method[u] # method[t]
  /\ method_vars_[method[t]] # NoEntry
  /\ method_vars_[method[t]].id = started[t]

C17_UnloadStep(t) ==
  (pc[t] = "erase" /\ pc'[t] # "erase")
    => /\ MappingSinceEraseBegan(t) => method_vars_'[method[t]] = NoEntry
       /\ \A m \in Methods \ {method[t]} : method_vars_'[m] = method_vars_[m]
       /\ method_vars_[method[t]] = NoEntry => method_vars_' = method_vars_

\* C17: the erase of the cache's unload handler removes the mapping the
\* method had when the erase began (no other call for the method being in
\* progress when it completes) and leaves the mapping of every other
\* method as it is; with no mapping for the method it leaves the cache
\* unchanged.
C17_UnloadRemovesOnlyH ==
  [][\A t \in Threads : C17_UnloadStep(t)]_vars


\* The thread is inside the locked lookup block, or the locked insert block.
InLookup(t) == pc[t] = "find"
InInsert(t) == pc[t] = "insert"

\* C18: the lookup takes mu_ shared and the insert takes it exclusively: a
\* thread arriving at the lookup enters it unless a thread is inside the
\* insert block, other threads being inside the lookup block or not; and
\* while a thread is inside the insert block no other thread is inside the
\* lookup block or the insert block.
C18_ReaderWriterLock ==
  /\ \A t \in Threads :
       (AtLookup(t) /\ \A u \in Threads : ~InInsert(u))
         => ENABLED GetLocalVariables_ReaderLock(t)
  /\ \A t, u \in Threads :
       (t # u /\ InInsert(t)) => ~InLookup(u) /\ ~InInsert(u)


\* An entry just allocated with no local instance and no locals, which no
\* mapping holds.
FreshEmptyEntry(e) ==
  /\ e.id = Len(born') /\ e.id > Len(born)
  /\ e.local_instance = NULL /\ e.locals = <<>>
  /\ \A m \in Methods : method_vars_'[m] # e

C19_ReturnStep(t) ==
  (pc[t] # "get_ret" /\ pc'[t] = "get_ret" /\ NoUnloadOfMethodMeanwhile(t))
    => /\ ret'[t] # NULL
       /\ \/ ret'[t] = method_vars_'[method[t]]
          \/ FreshEmptyEntry(ret'[t])

\* C19: what GetLocalVariables returns is never null: leaving the lookup or
\* the insert it is the entry the cache maps the method to at that moment (no
\* unload of the method having run since the call began), and leaving a failed load it is an
\* entry allocated for this return, without local instance or locals, that no
\* mapping holds.
C19_ReturnsStoredOrFresh ==
  [][\A t \in Threads : C19_ReturnStep(t)]_vars


\* The thread is inside GetLocalVariables, or inside the unload handler.
InGetLocalVariables(t) ==
  pc[t] \in {"reader_lock", "find", "load", "writer_lock", "insert"}

InUnload(t) == pc[t] \in {"ml_unload", "erase", "bm_unload"}

\* A thread waiting for mu_ does not hold it, and a thread inside LoadEntry
\* does not hold it.
C20_NoLockHeldWhileWaiting ==
  \A t \in Threads :
    pc[t] \in {"reader_lock", "writer_lock", "load"} => mu_ # t

\* C20: no thread waits for mu_ or calls the runtime while it holds mu_, and
\* under fair scheduling every GetLocalVariables call and every unload call
\* in progress reaches its return.
C20_NoDeadlock ==
  /\ []C20_NoLockHeldWhileWaiting
  /\ \A t \in Threads :
       /\ InGetLocalVariables(t) ~> Returned(t)
       /\ InUnload(t) ~> pc[t] = "unload_ret"

\* A call waits for mu_ at its insert while another thread holds it.
C20_Witness ==
  \E t, u \in Threads :
    /\ t # u /\ pc[t] = "writer_lock" /\ mu_ = u
    /\ pc[u] \in {"find", "insert"}

====
